---- MODULE Spec2Model ----
(***************************************************************************)
(* Model of src/main.rs: a Wayland client that opens an xdg toplevel       *)
(* window, builds the GStreamer pipeline appsrc ! videoconvert !           *)
(* waylandsink, feeds it 50 solid-colour BGRx frames from the appsrc       *)
(* need-data callback and then dispatches the Wayland event queue forever. *)
(*                                                                         *)
(* Two threads take steps: the main thread (main, create_pipeline,         *)
(* main_loop and the Wayland handlers it dispatches) and the pipeline's    *)
(* streaming thread (the need-data callback).  The compositor and the      *)
(* pipeline are the environment: they queue Wayland events, post bus       *)
(* messages and decide whether a library call succeeds.                    *)
(***************************************************************************)
EXTENDS Integers, Sequences, FiniteSets, TLC

(***************************************************************************)
(* Program constants                                                       *)
(***************************************************************************)
WIDTH == 320
HEIGHT == 240
\* "We only produce 50 frames": the value the callback compares i with
FrameBudget == 50
\* buffer.set_pts(i * 500 * gst::MSECOND): the factor, in units of gst::MSECOND
PtsStepMs == 500
\* bytes per BGRx pixel (the pixel fill writes pixel[0..3])
PixelBytes == 4

(***************************************************************************)
(* Bounds of the model (the environment's budgets)                         *)
(***************************************************************************)
\* Wayland events the compositor sends over a run
MaxWlEvents == 1
\* messages the pipeline posts on its bus over a run
MaxBus == 1
\* need-data invocations made after the frame budget is exhausted
MaxEosCalls == 2
\* Wayland events the compositor sends while only the window is watched
MaxWindowEvents == 3

VARIABLES
    pc,                 \* main thread: the statement it is at, or how the process ended
    done,               \* the setup steps the main thread has completed, in order
    objs,               \* the library objects main has created so far
    surface,            \* wl_surface: "none" | "created" | "attached" | "committed"
    sinkHandle,         \* the window handle given to the sink: "none" | "surface"
    renderRect,         \* the sink's render rectangle: <<x, y, w, h>> or <<>>
    pstate,             \* pipeline: "none" | "Null" | "Playing"
    linked,             \* the three elements are added and linked
    cbInstalled,        \* appsrc has the need-data callback
    watchInstalled,     \* the bus has the watch
    bus,                \* messages posted on the pipeline bus, not yet handled
    evq,                \* Wayland events received, not yet dispatched
    injected,           \* number of Wayland events the compositor has sent
    out,                \* requests the handlers have sent to the compositor
    pointer_created,
    keyboard_created,
    i,                  \* the frame counter of the need-data closure
    frames,             \* the indices of the frames handed to push_buffer, in order
    buffer,             \* the buffer handed to push_buffer last
    pushRejected,       \* some push_buffer call has returned an error
    eosCalls,           \* number of end_of_stream calls
    eosAccepted,        \* some end_of_stream call returned Ok
    cb,                 \* the streaming thread: "idle" | "dead" (it panicked)
    stderr              \* [error |-> "Error! .." lines, panic |-> panic messages]

mainVars == <<pc, done, objs>>
handleVars == <<surface, sinkHandle, renderRect>>
gstVars == <<pstate, linked, cbInstalled, watchInstalled>>
wlVars == <<evq, injected, out, pointer_created, keyboard_created>>
cbVars == <<i, frames, buffer, pushRejected, eosCalls, eosAccepted, cb>>
vars == <<pc, done, objs, surface, sinkHandle, renderRect, pstate, linked,
          cbInstalled, watchInstalled, bus, evq, injected, out,
          pointer_created, keyboard_created, i, frames, buffer, pushRejected,
          eosCalls,
          eosAccepted, cb, stderr>>

(***************************************************************************)
(* The main thread's statements in source order                            *)
(***************************************************************************)
MainOrderReordered ==
    << "connect", "roundtrip1", "tmpfile", "create_surface", "shm",
       "xdg_wm_base", "xdg_surface", "xdg_toplevel", "seat", "roundtrip2",
       "attach", "commit",
       "gst_init", "make_elements", "set_context", "add_many", "link_many",
       "set_caps", "set_window_handle", "set_render_rectangle",
       "set_playing", "set_callbacks", "add_watch", "loop" >>

MainOrder ==
    << "connect", "roundtrip1", "tmpfile", "create_surface", "shm",
       "xdg_wm_base", "xdg_surface", "xdg_toplevel", "seat", "roundtrip2",
       "attach", "commit",
       "gst_init", "make_elements", "set_context", "add_many", "link_many",
       "set_caps", "set_callbacks", "set_window_handle", "set_render_rectangle",
       "set_playing", "add_watch", "loop" >>

Terminal == {"returned", "panicked", "exit0", "aborted"}

IndexOf(seq, x) == CHOOSE n \in 1..Len(seq) : seq[n] = x

\* the statement that follows statement s
After(s) == MainOrder[IndexOf(MainOrder, s) + 1]

Running == pc \notin Terminal

Min(a, b) == IF a < b THEN a ELSE b


(***************************************************************************)
(* The video format given to appsrc and the frame the callback builds      *)
(***************************************************************************)
RoundUp4(n) == ((n + 3) \div 4) * 4

\* (variant) the stride of a packed 3-byte format
StrideRgb == RoundUp4(WIDTH * 3)

\* VideoInfo::builder(Bgrx, WIDTH, HEIGHT): one plane, 4 bytes per pixel
Stride == RoundUp4(WIDTH * PixelBytes)

\* video_info.size(): the byte size of one frame of the format
VideoInfoSize == Stride * HEIGHT

Red(n) == IF n % 2 = 0 THEN 0 ELSE 255
Green(n) == IF n % 3 = 0 THEN 0 ELSE 255
Blue(n) == IF n % 5 = 0 THEN 0 ELSE 255

\* (variant) the colour bytes written in R, G, B, x order
MakeFrameRGBx(n) ==
    [ idx  |-> n,
      size |-> VideoInfoSize,
      pts  |-> n * PtsStepMs,
      px   |-> << Red(n), Green(n), Blue(n), 0 >>,
      rows |-> Min(HEIGHT, VideoInfoSize \div Stride),
      cols |-> (4 * WIDTH) \div PixelBytes ]

\* (variant) the timestamp set to the frame number instead of a time
MakeFramePtsIndex(n) ==
    [ idx  |-> n,
      size |-> VideoInfoSize,
      pts  |-> n,
      px   |-> << Blue(n), Green(n), Red(n), 0 >>,
      rows |-> Min(HEIGHT, VideoInfoSize \div Stride),
      cols |-> (4 * WIDTH) \div PixelBytes ]

\* The buffer built for counter value n.  The fill loop walks the plane in
\* chunks of Stride bytes, takes HEIGHT of them, and in each writes the first
\* 4 * WIDTH bytes four at a time: rows x cols pixels get the bytes px, the
\* rest of the (uninitialised) allocation is left as it was.
MakeFrame(n) ==
    [ idx  |-> n,
      size |-> VideoInfoSize,
      pts  |-> n * PtsStepMs,
      px   |-> << Blue(n), Green(n), Red(n), 0 >>,
      rows |-> Min(HEIGHT, VideoInfoSize \div Stride),
      cols |-> (4 * WIDTH) \div PixelBytes ]

\* no buffer has been built yet
NoBuffer == [idx |-> -1, size |-> 0, pts |-> 0, px |-> << >>, rows |-> 0, cols |-> 0]

\* the four bytes of the pixel at (line, col) of frame f
FramePixel(f, line, col) ==
    IF line < f.rows /\ col < f.cols THEN f.px ELSE << "uninit" >>

(***************************************************************************)
(* Initial state: the process has started, main has executed nothing       *)
(***************************************************************************)
Init ==
    /\ pc = "connect"
    /\ done = << >>
    /\ objs = {}
    /\ surface = "none"
    /\ sinkHandle = "none"
    /\ renderRect = << >>
    /\ pstate = "none"
    /\ linked = FALSE
    /\ cbInstalled = FALSE
    /\ watchInstalled = FALSE
    /\ bus = << >>
    /\ evq = << >>
    /\ injected = 0
    /\ out = << >>
    /\ pointer_created = FALSE
    /\ keyboard_created = FALSE
    /\ i = 0
    /\ frames = << >>
    /\ buffer = NoBuffer
    /\ pushRejected = FALSE
    /\ eosCalls = 0
    /\ eosAccepted = FALSE
    /\ cb = "idle"
    /\ stderr = [error |-> 0, panic |-> 0]

(***************************************************************************)
(* Outcomes of one statement of the main thread                            *)
(***************************************************************************)
\* the statement succeeds and creates the objects in new
MainOk(s, new) ==
    /\ pc = s
    /\ pc' = After(s)
    /\ done' = Append(done, s)
    /\ objs' = objs \cup new
    /\ stderr' = stderr

\* an unwrap() / expect() on the main thread fails: the panic message is
\* printed and the process ends
MainPanic(s) ==
    /\ pc = s
    /\ pc' = "panicked"
    /\ stderr' = [stderr EXCEPT !.panic = @ + 1]
    /\ UNCHANGED <<done, objs>>

\* a `?` returns the error to main's match
MainErr(s) ==
    /\ pc = s
    /\ pc' = "err"
    /\ UNCHANGED <<done, objs, stderr>>

(***************************************************************************)
(* main: Wayland setup                                                     *)
(***************************************************************************)
Connect ==
    /\ \/ MainOk("connect", {"display", "event_queue", "globals"})
       \/ MainPanic("connect")
    /\ UNCHANGED <<handleVars, gstVars, bus, wlVars, cbVars>>

Roundtrip1 ==
    /\ \/ MainOk("roundtrip1", {})
       \/ MainPanic("roundtrip1")
    /\ UNCHANGED <<handleVars, gstVars, bus, wlVars, cbVars>>

TmpFile ==
    /\ \/ MainOk("tmpfile", {"tmp"})
       \/ MainPanic("tmpfile")
    /\ UNCHANGED <<handleVars, gstVars, bus, wlVars, cbVars>>

CreateSurface ==
    /\ \/ /\ MainOk("create_surface", {"compositor", "surface"})
          /\ surface' = "created"
       \/ /\ MainPanic("create_surface")
          /\ surface' = surface
    /\ UNCHANGED <<sinkHandle, renderRect, gstVars, bus, wlVars, cbVars>>

Shm ==
    /\ \/ MainOk("shm", {"shm", "pool", "buffer"})
       \/ MainPanic("shm")
    /\ UNCHANGED <<handleVars, gstVars, bus, wlVars, cbVars>>

XdgWmBase ==
    /\ \/ MainOk("xdg_wm_base", {"xdg_wm_base"})
       \/ MainPanic("xdg_wm_base")
    /\ UNCHANGED <<handleVars, gstVars, bus, wlVars, cbVars>>

XdgSurface ==
    /\ MainOk("xdg_surface", {"xdg_surface"})
    /\ UNCHANGED <<handleVars, gstVars, bus, wlVars, cbVars>>

XdgToplevel ==
    /\ MainOk("xdg_toplevel", {"xdg_toplevel"})
    /\ UNCHANGED <<handleVars, gstVars, bus, wlVars, cbVars>>

Seat ==
    /\ \/ MainOk("seat", {"seat"})
       \/ MainPanic("seat")
    /\ UNCHANGED <<handleVars, gstVars, bus, wlVars, cbVars>>

\* sync_roundtrip returns once the events received so far are dispatched
Roundtrip2 ==
    /\ \/ /\ evq = << >>
          /\ MainOk("roundtrip2", {})
       \/ MainPanic("roundtrip2")
    /\ UNCHANGED <<handleVars, gstVars, bus, wlVars, cbVars>>

Attach ==
    /\ MainOk("attach", {})
    /\ surface' = "attached"
    /\ UNCHANGED <<sinkHandle, renderRect, gstVars, bus, wlVars, cbVars>>

Commit ==
    /\ MainOk("commit", {})
    /\ surface' = "committed"
    /\ UNCHANGED <<sinkHandle, renderRect, gstVars, bus, wlVars, cbVars>>

(***************************************************************************)
(* create_pipeline                                                         *)
(***************************************************************************)
GstInit ==
    /\ \/ MainOk("gst_init", {"gst"})
       \/ MainErr("gst_init")
    /\ UNCHANGED <<handleVars, gstVars, bus, wlVars, cbVars>>

\* Pipeline::new and the three ElementFactory::make calls; a missing element
\* is returned as MissingElement
MakeElements ==
    /\ \/ /\ MainOk("make_elements",
                    {"pipeline", "appsrc", "videoconvert", "waylandsink"})
          /\ pstate' = "Null"
       \/ /\ MainErr("make_elements")
          /\ pstate' = pstate
    /\ UNCHANGED <<handleVars, linked, cbInstalled, watchInstalled, bus, wlVars, cbVars>>

SetContext ==
    /\ MainOk("set_context", {"context"})
    /\ UNCHANGED <<handleVars, gstVars, bus, wlVars, cbVars>>

AddMany ==
    /\ \/ MainOk("add_many", {})
       \/ MainErr("add_many")
    /\ UNCHANGED <<handleVars, gstVars, bus, wlVars, cbVars>>

LinkMany ==
    /\ \/ /\ MainOk("link_many", {})
          /\ linked' = TRUE
       \/ /\ MainErr("link_many")
          /\ linked' = linked
    /\ UNCHANGED <<handleVars, pstate, cbInstalled, watchInstalled, bus, wlVars, cbVars>>

\* dynamic_cast to AppSrc, VideoInfo::builder(..).build(), set_caps, set_property_format
SetCaps ==
    /\ \/ MainOk("set_caps", {"video_info"})
       \/ MainPanic("set_caps")
    /\ UNCHANGED <<handleVars, gstVars, bus, wlVars, cbVars>>

\* let mut i = 0; appsrc.set_callbacks(.. need_data ..)
SetCallbacks ==
    /\ MainOk("set_callbacks", {})
    /\ cbInstalled' = TRUE
    /\ UNCHANGED <<handleVars, pstate, linked, watchInstalled, bus, wlVars, cbVars>>

\* the sink as VideoOverlay gets the wl_surface's native handle
SetWindowHandle ==
    /\ \/ /\ MainOk("set_window_handle", {"video_overlay"})
          /\ sinkHandle' = "surface"
       \/ /\ MainPanic("set_window_handle")
          /\ sinkHandle' = sinkHandle
    /\ UNCHANGED <<surface, renderRect, gstVars, bus, wlVars, cbVars>>

SetRenderRectangle ==
    /\ \/ /\ MainOk("set_render_rectangle", {})
          /\ renderRect' = << 0, 0, WIDTH, HEIGHT >>
       \/ /\ MainPanic("set_render_rectangle")
          /\ renderRect' = renderRect
    /\ UNCHANGED <<surface, sinkHandle, gstVars, bus, wlVars, cbVars>>

(***************************************************************************)
(* main_loop                                                               *)
(***************************************************************************)
SetPlaying ==
    /\ \/ /\ MainOk("set_playing", {})
          /\ pstate' = "Playing"
       \/ /\ MainErr("set_playing")
          /\ pstate' = pstate
    /\ UNCHANGED <<handleVars, linked, cbInstalled, watchInstalled, bus, wlVars, cbVars>>

\* get_bus, MainContext::default().acquire(), bus.add_watch_local(..)
AddWatch ==
    /\ \/ /\ MainOk("add_watch", {"bus"})
          /\ watchInstalled' = TRUE
       \/ /\ MainPanic("add_watch")
          /\ watchInstalled' = watchInstalled
    /\ UNCHANGED <<handleVars, pstate, linked, cbInstalled, bus, wlVars, cbVars>>

\* (variant) the error is printed and main_loop is entered all the same
ReportErrorThenLoop ==
    /\ pc = "err"
    /\ pc' = "set_playing"
    /\ stderr' = [stderr EXCEPT !.error = @ + 1]
    /\ UNCHANGED <<done, objs, handleVars, gstVars, bus, wlVars, cbVars>>

\* main's Err arm: eprintln!("Error! {}", e), then main returns
ReportError ==
    /\ pc = "err"
    /\ pc' = "returned"
    /\ stderr' = [stderr EXCEPT !.error = @ + 1]
    /\ UNCHANGED <<done, objs, handleVars, gstVars, bus, wlVars, cbVars>>

(***************************************************************************)
(* The Wayland handlers, each given the event e it is called with          *)
(***************************************************************************)
\* xdg_wm_base: Ping { serial } is answered with pong(serial)
XdgWmBaseEvent(e) ==
    /\ e.k = "Ping"
    /\ out' = Append(out, [req |-> "pong", s |-> e.s])
    /\ UNCHANGED <<pc, pointer_created, keyboard_created>>

\* (variant) the configure acknowledged with a fixed serial
XdgSurfaceEventStaleSerial(e) ==
    /\ e.k = "SurfaceConfigure"
    /\ out' = Append(out, [req |-> "ack_configure", s |-> 1])
    /\ UNCHANGED <<pc, pointer_created, keyboard_created>>

\* xdg_surface: Configure { serial } is answered with ack_configure(serial)
XdgSurfaceEvent(e) ==
    /\ e.k = "SurfaceConfigure"
    /\ out' = Append(out, [req |-> "ack_configure", s |-> e.s])
    /\ UNCHANGED <<pc, pointer_created, keyboard_created>>

\* xdg_toplevel: Close exits the process, Configure is printed
XdgToplevelEvent(e) ==
    \/ /\ e.k = "Close"
       /\ pc' = "exit0"
       /\ UNCHANGED <<out, pointer_created, keyboard_created>>
    \/ /\ e.k = "ToplevelConfigure"
       /\ UNCHANGED <<pc, out, pointer_created, keyboard_created>>

\* (variant) the handler without its pointer_created / keyboard_created tests
SeatEventNoGuard(e) ==
    /\ e.k = "Capabilities"
    /\ LET mkPointer == "Pointer" \in e.caps
           mkKeyboard == "Keyboard" \in e.caps
       IN  /\ pointer_created' = (pointer_created \/ mkPointer)
           /\ keyboard_created' = (keyboard_created \/ mkKeyboard)
           /\ out' = out
                  \o (IF mkPointer THEN << [req |-> "get_pointer", s |-> 0] >> ELSE << >>)
                  \o (IF mkKeyboard THEN << [req |-> "get_keyboard", s |-> 0] >> ELSE << >>)
    /\ pc' = pc

\* wl_seat: Capabilities creates the pointer and the keyboard, each once
SeatEvent(e) ==
    /\ e.k = "Capabilities"
    /\ LET mkPointer == ~pointer_created /\ "Pointer" \in e.caps
           mkKeyboard == ~keyboard_created /\ "Keyboard" \in e.caps
       IN  /\ pointer_created' = (pointer_created \/ mkPointer)
           /\ keyboard_created' = (keyboard_created \/ mkKeyboard)
           /\ out' = out
                  \o (IF mkPointer THEN << [req |-> "get_pointer", s |-> 0] >> ELSE << >>)
                  \o (IF mkKeyboard THEN << [req |-> "get_keyboard", s |-> 0] >> ELSE << >>)
    /\ pc' = pc

\* event_queue.dispatch (and the second sync_roundtrip) hands the oldest
\* pending event to the handler of its object
Dispatch ==
    /\ pc \in {"roundtrip2", "loop"}
    /\ evq # << >>
    /\ evq' = Tail(evq)
    /\ injected' = injected
    /\ LET e == Head(evq)
       IN  \/ XdgWmBaseEvent(e)
           \/ XdgSurfaceEvent(e)
           \/ XdgToplevelEvent(e)
           \/ SeatEvent(e)
    /\ UNCHANGED <<done, objs, handleVars, gstVars, bus, cbVars, stderr>>

\* event_queue.dispatch(..).unwrap() in the loop: dispatch returns an error
DispatchFail ==
    /\ pc = "loop"
    /\ pc' = "panicked"
    /\ stderr' = [stderr EXCEPT !.panic = @ + 1]
    /\ UNCHANGED <<done, objs, handleVars, gstVars, bus, wlVars, cbVars>>

(***************************************************************************)
(* The need-data callback, called on the pipeline's streaming thread       *)
(***************************************************************************)
\* (variant) the budget test one frame early
BudgetExhaustedEarly(n) == n >= FrameBudget - 1

\* (variant) the budget test one frame late
BudgetExhaustedLate(n) == n = FrameBudget + 1

\* if i == 50
BudgetExhausted(n) == n = FrameBudget

\* (variant) the counter advanced by two
NextCounterByTwo(n) == n + 2

\* i += 1
NextCounter(n) == n + 1

\* (variant) a failed end_of_stream restarts the clip
EndOfStreamRestart(ok) ==
    /\ eosCalls' = eosCalls + 1
    /\ eosAccepted' = (eosAccepted \/ ok)
    /\ i' = IF ok THEN i ELSE 0
    /\ UNCHANGED <<frames, buffer, pushRejected, cb, pc, stderr, handleVars>>

\* let _ = appsrc.end_of_stream(); return;  -- ok is the call's result
EndOfStream(ok) ==
    /\ eosCalls' = eosCalls + 1
    /\ eosAccepted' = (eosAccepted \/ ok)
    /\ UNCHANGED <<i, frames, buffer, pushRejected, cb, pc, stderr, handleVars>>

\* (variant) the callback commits the surface again after each frame
ProduceFrameRecommit(ok) ==
    /\ frames' = Append(frames, i)
    /\ buffer' = MakeFrame(i)
    /\ i' = NextCounter(i)
    /\ pushRejected' = (pushRejected \/ ~ok)
    /\ surface' = "attached"
    /\ UNCHANGED <<eosCalls, eosAccepted, cb, pc, stderr, sinkHandle, renderRect>>

\* (variant) the counter advanced only when the push is accepted
ProduceFrameRetry(ok) ==
    /\ frames' = Append(frames, i)
    /\ buffer' = MakeFrame(i)
    /\ i' = IF ok THEN NextCounter(i) ELSE i
    /\ pushRejected' = (pushRejected \/ ~ok)
    /\ UNCHANGED <<eosCalls, eosAccepted, cb, pc, stderr, handleVars>>

\* the frame is built, the counter advanced and the buffer pushed; ok is the
\* result of push_buffer, which is discarded
ProduceFrame(ok) ==
    /\ frames' = Append(frames, i)
    /\ buffer' = MakeFrame(i)
    /\ i' = NextCounter(i)
    /\ pushRejected' = (pushRejected \/ ~ok)
    /\ UNCHANGED <<eosCalls, eosAccepted, cb, pc, stderr, handleVars>>

\* Buffer::with_size(..).unwrap() (or mapping the buffer) fails: the closure
\* panics on the streaming thread, inside the library's C callback.  The
\* message is printed; the unwind leaves Rust code, which either aborts the
\* process or ends only the streaming thread.
FrameAllocFail ==
    /\ stderr' = [stderr EXCEPT !.panic = @ + 1]
    /\ \/ pc' = "aborted" /\ cb' = cb
       \/ pc' = pc /\ cb' = "dead"
    /\ UNCHANGED <<i, frames, buffer, pushRejected, eosCalls, eosAccepted, handleVars>>

NeedData ==
    /\ Running
    /\ pstate = "Playing"
    /\ cbInstalled
    /\ cb = "idle"
    /\ IF BudgetExhausted(i)
       THEN /\ eosCalls < MaxEosCalls
            /\ \E ok \in BOOLEAN : EndOfStream(ok)
       ELSE \/ \E ok \in BOOLEAN : ProduceFrame(ok)
            \/ FrameAllocFail
    /\ UNCHANGED <<done, objs, gstVars, bus, wlVars>>

(***************************************************************************)
(* The environment                                                         *)
(***************************************************************************)
\* the values a Ping / Configure serial is drawn from
Serials == {1, 2}

\* the events the compositor can send to the objects that exist
WlEvents ==
    (IF "xdg_wm_base" \in objs
        THEN {[k |-> "Ping", s |-> n, caps |-> {}] : n \in Serials} ELSE {})
    \cup
    (IF "xdg_surface" \in objs
        THEN {[k |-> "SurfaceConfigure", s |-> n, caps |-> {}] : n \in Serials} ELSE {})
    \cup
    (IF "xdg_toplevel" \in objs
        THEN {[k |-> kk, s |-> 0, caps |-> {}] : kk \in {"ToplevelConfigure", "Close"}}
        ELSE {})
    \cup
    (IF "seat" \in objs
        THEN {[k |-> "Capabilities", s |-> 0, caps |-> c] :
                  c \in SUBSET {"Pointer", "Keyboard"}}
        ELSE {})

\* the compositor sends an event, at most limit of them over the run
WlSend(limit) ==
    /\ Running
    /\ injected < limit
    /\ \E e \in WlEvents : evq' = Append(evq, e)
    /\ injected' = injected + 1
    /\ UNCHANGED <<pc, done, objs, handleVars, gstVars, bus, out,
                   pointer_created, keyboard_created, cbVars, stderr>>

WlEvent == WlSend(MaxWlEvents)

\* the pipeline posts a message on its bus
BusPost ==
    /\ Running
    /\ pstate = "Playing"
    /\ Len(bus) < MaxBus
    /\ \E m \in {"Eos", "Error", "Other"} :
          /\ m = "Eos" => eosAccepted
          /\ bus' = Append(bus, m)
    /\ UNCHANGED <<pc, done, objs, handleVars, gstVars, wlVars, cbVars, stderr>>

(***************************************************************************)
(* The bus watch closure.  glib calls it, on the thread that iterates the  *)
(* default main context, with the oldest message on the bus.  main_loop    *)
(* never iterates that context, so BusWatch is no step of Next; it is a    *)
(* step of WatchSpec only.                                                 *)
(***************************************************************************)
\* (variant) the handler stopping the pipeline on end-of-stream too
BusWatchNullOnEos ==
    /\ pc = "loop"
    /\ watchInstalled
    /\ bus # << >>
    /\ bus' = Tail(bus)
    /\ IF Head(bus) \in {"Error", "Eos"}
       THEN \/ /\ pstate' = "Null"
               /\ UNCHANGED <<pc, stderr>>
            \/ /\ pstate' = pstate
               /\ \E end \in {"panicked", "aborted"} : pc' = end
               /\ stderr' = [stderr EXCEPT !.panic = @ + 1]
       ELSE UNCHANGED <<pstate, pc, stderr>>
    /\ watchInstalled' = watchInstalled
    /\ UNCHANGED <<done, objs, handleVars, linked, cbInstalled, wlVars, cbVars>>

\* Eos and other messages are printed; Error is printed and the pipeline set
\* to Null, with unwrap() on the result (a panic inside glib's C dispatch);
\* Continue(true) keeps the watch
BusWatch ==
    /\ pc = "loop"
    /\ watchInstalled
    /\ bus # << >>
    /\ bus' = Tail(bus)
    /\ IF Head(bus) = "Error"
       THEN \/ /\ pstate' = "Null"
               /\ UNCHANGED <<pc, stderr>>
            \/ /\ pstate' = pstate
               /\ \E end \in {"panicked", "aborted"} : pc' = end
               /\ stderr' = [stderr EXCEPT !.panic = @ + 1]
       ELSE UNCHANGED <<pstate, pc, stderr>>
    /\ watchInstalled' = watchInstalled
    /\ UNCHANGED <<done, objs, handleVars, linked, cbInstalled, wlVars, cbVars>>

(***************************************************************************)
(* The system                                                              *)
(***************************************************************************)
MainThread ==
    \/ Connect \/ Roundtrip1 \/ TmpFile \/ CreateSurface \/ Shm
    \/ XdgWmBase \/ XdgSurface \/ XdgToplevel \/ Seat \/ Roundtrip2
    \/ Attach \/ Commit
    \/ GstInit \/ MakeElements \/ SetContext \/ AddMany \/ LinkMany
    \/ SetCaps \/ SetCallbacks \/ SetWindowHandle \/ SetRenderRectangle
    \/ SetPlaying \/ AddWatch \/ ReportError \/ Dispatch

Next ==
    \/ MainThread
    \/ DispatchFail
    \/ NeedData
    \/ WlEvent
    \/ BusPost

Spec == Init /\ [][Next]_vars

\* The main thread runs while it has a statement to execute, and the pipeline
\* calls need-data while it plays and wants data.
FairSpec == Spec /\ WF_vars(MainThread) /\ WF_vars(NeedData)


(***************************************************************************)
(* The callback alone: main is in its loop, the compositor and the bus are *)
(* silent, and the pipeline calls need-data.  CallbackInit is the state    *)
(* Spec is in when main_loop has installed the watch and no frame has been *)
(* produced.                                                               *)
(***************************************************************************)
CallbackInit ==
    /\ pc = "loop"
    /\ done = SubSeq(MainOrder, 1, Len(MainOrder) - 1)
    /\ objs = {"display", "event_queue", "globals", "tmp", "compositor",
               "surface", "shm", "pool", "buffer", "xdg_wm_base",
               "xdg_surface", "xdg_toplevel", "seat", "gst", "pipeline",
               "appsrc", "videoconvert", "waylandsink", "context",
               "video_info", "video_overlay", "bus"}
    /\ surface = "committed"
    /\ sinkHandle = "surface"
    /\ renderRect = << 0, 0, WIDTH, HEIGHT >>
    /\ pstate = "Playing"
    /\ linked = TRUE
    /\ cbInstalled = TRUE
    /\ watchInstalled = TRUE
    /\ bus = << >>
    /\ evq = << >>
    /\ injected = 0
    /\ out = << >>
    /\ pointer_created = FALSE
    /\ keyboard_created = FALSE
    /\ i = 0
    /\ frames = << >>
    /\ buffer = NoBuffer
    /\ pushRejected = FALSE
    /\ eosCalls = 0
    /\ eosAccepted = FALSE
    /\ cb = "idle"
    /\ stderr = [error |-> 0, panic |-> 0]

CallbackNext == NeedData

CallbackSpec == CallbackInit /\ [][CallbackNext]_vars

(***************************************************************************)
(* The window alone: main is in its loop and dispatches what the           *)
(* compositor sends, several events in a row; the pipeline is not          *)
(* scheduled.  It starts in the state main_loop enters its loop in.        *)
(***************************************************************************)
WlEventBurst == WlSend(MaxWindowEvents)

WindowNext ==
    \/ WlEventBurst
    \/ Dispatch
    \/ DispatchFail

WindowSpec == CallbackInit /\ [][WindowNext]_vars

(***************************************************************************)
(* The bus watch driven: the pipeline plays and posts messages, and the    *)
(* closure is called with each, as it would be were the default main       *)
(* context iterated.  It starts in the state main_loop enters its loop in. *)
(***************************************************************************)
WatchNext ==
    \/ NeedData
    \/ BusPost
    \/ BusWatch

WatchSpec == CallbackInit /\ [][WatchNext]_vars


(***************************************************************************)
(* Properties                                                              *)
(***************************************************************************)
Terminated == pc \in Terminal

\* a step of the need-data callback that returns normally
CallbackStep == cbVars' # cbVars

\* C1: the callback emits exactly 50 frames before signalling completion:
\* end-of-stream is never signalled while fewer than 50 frames have been
\* pushed, the invocation that follows the 50th frame signals it, and no
\* frame is pushed once it has been signalled.
C1_FiftyFramesThenEos ==
    /\ [](Len(frames) <= 50 /\ (eosCalls > 0 => Len(frames) = 50))
    /\ [][ /\ (eosCalls' > eosCalls => Len(frames) = 50)
           /\ (Len(frames) = 50 /\ CallbackStep => eosCalls' = eosCalls + 1)
           /\ (eosCalls > 0 => frames' = frames) ]_vars

C1_Witness == eosCalls = 1 /\ Len(frames) = 50

\* C2: every frame buffer the callback pushes has the byte size of the
\* declared format, WIDTH x HEIGHT x 4 = 320 x 240 x 4 = 307200, whatever
\* its index.  (Each pushed buffer is `buffer` in the state its invocation
\* leaves.)
C2_FrameSize ==
    buffer # NoBuffer =>
        /\ buffer.size = 307200
        /\ buffer.size = 320 * 240 * 4
        /\ buffer.size = WIDTH * HEIGHT * 4

C2_Witness == Len(frames) = 50 /\ buffer.idx = 49 /\ buffer.size = 307200

\* C3: the frame counter always satisfies 0 <= i <= 50, and every frame is
\* generated with an index in [0,50).
C3_CounterRange ==
    /\ i \in 0..50
    /\ \A k \in 1..Len(frames) : frames[k] \in 0..49
    /\ buffer # NoBuffer => buffer.idx \in 0..49

C3_Witness == i = 50 /\ eosCalls = MaxEosCalls /\ frames[50] = 49

\* C4: the counter never decreases and is raised by exactly 1 by each
\* invocation that generates a frame, so the frames carry the indices
\* 0, 1, 2, ... in that order, none skipped and none used twice.
C4_CounterMonotone ==
    /\ [](/\ Len(frames) = i
          /\ \A k \in 1..Len(frames) : frames[k] = k - 1)
    /\ [][ /\ i' >= i
           /\ (frames' # frames =>
                 /\ frames' = Append(frames, i)
                 /\ buffer'.idx = i
                 /\ i' = i + 1)
           /\ (i' # i => frames' # frames) ]_vars

C4_Witness ==
    /\ Len(frames) = 50
    /\ pushRejected
    /\ frames[1] = 0
    /\ frames[50] = 49

\* the colour the claim gives frame n: (B, G, R, X)
C5_Colour(n) ==
    << IF n % 5 = 0 THEN 0 ELSE 255,
       IF n % 3 = 0 THEN 0 ELSE 255,
       IF n % 2 = 0 THEN 0 ELSE 255,
       0 >>

\* C5: a generated frame is solid and its colour is a function of its index
\* alone: every pixel of frame n is C5_Colour(n), whatever was generated or
\* rejected before.  (Each frame is `buffer` in the state its invocation
\* leaves, where all its pixels are compared.)
C5_SolidColour ==
    buffer # NoBuffer =>
        \A line \in 0..(HEIGHT - 1) : \A col \in 0..(WIDTH - 1) :
            FramePixel(buffer, line, col) = C5_Colour(buffer.idx)

C5_Witness ==
    /\ buffer.idx = 7
    /\ pushRejected
    /\ FramePixel(buffer, HEIGHT - 1, WIDTH - 1) = << 255, 255, 255, 0 >>
    /\ FramePixel(buffer, 0, 0) = << 255, 255, 255, 0 >>

\* C6: while main_loop runs, every message posted on the pipeline bus is
\* eventually delivered to the bus watch handler and every Wayland event is
\* eventually delivered to its handler: a pending message (event) is
\* eventually taken off the bus (the event queue), unless the loop has ended.
C6_BothDispatched ==
    /\ (pc = "loop" /\ bus # << >>) ~> (pc # "loop" \/ bus = << >>)
    /\ (pc = "loop" /\ evq # << >>) ~> (pc # "loop" \/ evq = << >>)

\* the Wayland half of C6 on its own
WlEventsDispatched ==
    (pc = "loop" /\ evq # << >>) ~> (pc # "loop" \/ evq = << >>)

\* a library call has reported a failure to the program
FailureReported ==
    \/ pc \in {"err", "returned", "panicked", "aborted"}
    \/ cb = "dead"

\* C7: every failure reported by the external libraries (missing element,
\* failed add/link, failed buffer allocation, failed state change) ends in
\* process termination with a printed message, and the failed step is not
\* run again.
C7_FailureIsFatal ==
    /\ FailureReported ~> (Terminated /\ stderr.error + stderr.panic > 0)
    /\ [][ /\ (pc \in {"err", "returned", "panicked", "aborted"} =>
                 done' = done /\ UNCHANGED cbVars)
           /\ (cb = "dead" => UNCHANGED cbVars) ]_vars

\* the order of setup the claim describes, step by step
C8_Order ==
    << "connect", "roundtrip1", "tmpfile", "create_surface", "shm",
       "xdg_wm_base", "xdg_surface", "xdg_toplevel", "seat", "roundtrip2",
       "attach", "commit", "gst_init", "make_elements", "set_context",
       "add_many", "link_many", "set_caps", "set_callbacks",
       "set_window_handle", "set_render_rectangle", "set_playing",
       "add_watch" >>

\* step a comes before step b in C8_Order
C8_Precedes(a, b) == IndexOf(C8_Order, a) < IndexOf(C8_Order, b)

\* the relative positions the order is described by
C8_Relative ==
    /\ C8_Precedes("connect", "create_surface")
    /\ C8_Precedes("connect", "xdg_surface")
    /\ C8_Precedes("connect", "xdg_toplevel")
    /\ C8_Precedes("attach", "commit")
    /\ C8_Precedes("commit", "make_elements")
    /\ C8_Precedes("add_many", "set_callbacks")
    /\ C8_Precedes("link_many", "set_callbacks")
    /\ C8_Precedes("set_callbacks", "set_playing")
    /\ C8_Precedes("set_window_handle", "set_playing")

\* C8: setup is a linear sequence with a fixed order: display before surface
\* and window objects; buffer attached and committed before the pipeline is
\* built; pipeline built and linked before the callback is installed;
\* Playing and the event loop only after the callback is installed and the
\* window handle handed to the sink.  The steps completed are always an
\* initial part of that order (none skipped, none out of place), the objects
\* are in the states the order implies, and the loop is reached only with
\* all of it done.
C8_SetupOrder ==
    /\ C8_Relative
    /\ Len(done) <= Len(C8_Order)
    /\ done = SubSeq(C8_Order, 1, Len(done))
    /\ (surface # "none" => "display" \in objs)
    /\ (pstate # "none" => surface = "committed")
    /\ (cbInstalled => pstate # "none" /\ linked)
    /\ (pstate = "Playing" => cbInstalled /\ sinkHandle = "surface")
    /\ (pc = "loop" => pstate = "Playing" /\ done = C8_Order)

C8_Witness == pc = "loop" /\ pstate = "Playing" /\ Len(done) = 23

\* what only the main thread writes
mainSide == <<done, objs, handleVars, gstVars, out, pointer_created, keyboard_created>>

\* C9: the callback and the main thread never write the same object: a step
\* that changes the callback's state (the counter, what appsrc was given)
\* changes no window/surface handle and nothing else the main thread owns,
\* and a step of the main thread leaves the counter and the frames alone.
C9_DisjointWrites ==
    [][ /\ (CallbackStep => UNCHANGED mainSide)
        /\ (mainSide' # mainSide => UNCHANGED cbVars)
        /\ (pc' # pc /\ pc' # "aborted" => UNCHANGED cbVars) ]_vars

C9_Witness ==
    /\ pc = "loop"
    /\ out # << >>
    /\ i \in 1..49
    /\ sinkHandle = "surface"
    /\ surface = "committed"

\* C10: once the counter is 50, every further invocation signals
\* end-of-stream again, pushes no buffer and leaves the counter at 50, so
\* end-of-stream can be signalled more than once; a failed end-of-stream
\* call changes nothing else.
C10_EosRepeats ==
    [][ i = 50 /\ CallbackStep =>
          /\ eosCalls' = eosCalls + 1
          /\ i' = 50
          /\ UNCHANGED <<frames, buffer, pushRejected, cb, pc, stderr, bus, mainSide, wlVars>> ]_vars

C10_Witness == i = 50 /\ eosCalls = 2 /\ ~eosAccepted /\ Len(frames) = 50 /\ Running

\* C11: the counter advances whether or not push_buffer accepts the frame:
\* a step that hands over frame i and leaves a rejection recorded (the push
\* of frame i failed, or an earlier one had) still appends index i and sets
\* the counter to i + 1; every index handed over is below the counter, so
\* none is ever handed over twice; and with a
\* rejected push behind it the callback still signals end-of-stream on the
\* invocation after the 50th generated frame.
C11_PushFailureAdvances ==
    /\ [](\A k \in 1..Len(frames) : frames[k] < i)
    /\ [][ /\ (pushRejected' /\ frames' # frames =>
                  /\ frames' = Append(frames, i)
                  /\ i' = i + 1
                  /\ \A k \in 1..Len(frames) : frames[k] # i)
           /\ (pushRejected => pushRejected')
           /\ (pushRejected /\ Len(frames) = 50 /\ CallbackStep =>
                  eosCalls' = eosCalls + 1 /\ frames' = frames) ]_vars

C11_Witness ==
    /\ pushRejected
    /\ Len(frames) = 50
    /\ i = 50
    /\ eosCalls = 1
    /\ eosAccepted

\* a `?` of create_pipeline returned an error: main is at (or past) its Err
\* arm and create_pipeline's last statement was never completed
C12_CreatePipelineFailed ==
    /\ pc \in {"err", "returned"}
    /\ \A k \in 1..Len(done) : done[k] # "set_render_rectangle"

\* C12: when a step of create_pipeline fails (gst::init, a missing element,
\* add_many, link_many), main_loop is never entered: the pipeline is not
\* Playing and never becomes so, no bus watch is installed, the callback
\* has produced nothing and never does, and the only step main takes is to
\* print the error, once, and return.
C12_NoLoopAfterFailure ==
    /\ [](C12_CreatePipelineFailed =>
            /\ pstate # "Playing"
            /\ ~watchInstalled
            /\ i = 0 /\ frames = << >> /\ eosCalls = 0
            /\ stderr.error = (IF pc = "returned" THEN 1 ELSE 0))
    /\ [][ C12_CreatePipelineFailed =>
             /\ C12_CreatePipelineFailed'
             /\ (pc' # pc => pc = "err" /\ pc' = "returned"
                              /\ stderr'.error = stderr.error + 1)
             /\ UNCHANGED <<done, gstVars, cbVars>> ]_vars

C12_Witness ==
    /\ pc = "returned"
    /\ stderr.error = 1
    /\ done[Len(done)] = "add_many"
    /\ ~linked
    /\ pstate = "Null"

\* frames per second declared in the caps: fps(gst::Fraction::new(2, 1))
FpsNum == 2
FpsDen == 1

\* C14: frame i carries the timestamp i x 500 ms: the first frame carries 0,
\* each frame carries 500 ms more than the one before it (1000 ms / 2 frames
\* per second), and frame 49 carries 24500 ms.
C14_Timestamps ==
    /\ 500 * FpsNum = 1000 * FpsDen
    /\ [](buffer # NoBuffer =>
            /\ buffer.pts = buffer.idx * 500
            /\ (Len(frames) = 1 => buffer.pts = 0)
            /\ (Len(frames) = 50 => buffer.pts = 24500))
    /\ [][ frames' # frames /\ buffer # NoBuffer =>
             /\ buffer'.pts > buffer.pts
             /\ buffer'.pts - buffer.pts = 500 ]_vars

C14_Witness == Len(frames) = 50 /\ buffer.idx = 49 /\ buffer.pts = 24500

\* number of requests of kind r the handlers have sent
Sent(r) == Cardinality({k \in 1..Len(out) : out[k].req = r})

\* the step hands the oldest pending Wayland event to its handler
DispatchStep == Len(evq') < Len(evq)

\* C13: over any sequence of seat Capabilities events at most one pointer
\* and at most one keyboard are created: the flags never go back to false,
\* a Capabilities event creates the pointer exactly when it contains
\* Pointer and none has been created yet (so never a second time, also
\* after the capability was withdrawn and announced again), and likewise
\* for the keyboard.
C13_CreatedOnce ==
    /\ [](/\ Sent("get_pointer") = (IF pointer_created THEN 1 ELSE 0)
          /\ Sent("get_keyboard") = (IF keyboard_created THEN 1 ELSE 0))
    /\ [][ /\ (pointer_created => pointer_created')
           /\ (keyboard_created => keyboard_created')
           /\ (DispatchStep /\ Head(evq).k = "Capabilities" =>
                 /\ pointer_created' =
                        (pointer_created \/ "Pointer" \in Head(evq).caps)
                 /\ keyboard_created' =
                        (keyboard_created \/ "Keyboard" \in Head(evq).caps)
                 /\ Sent("get_pointer")' - Sent("get_pointer") =
                        (IF ~pointer_created /\ "Pointer" \in Head(evq).caps
                            THEN 1 ELSE 0)
                 /\ Sent("get_keyboard")' - Sent("get_keyboard") =
                        (IF ~keyboard_created /\ "Keyboard" \in Head(evq).caps
                            THEN 1 ELSE 0))
           /\ (pointer_created' # pointer_created \/ keyboard_created' # keyboard_created
                 => DispatchStep /\ Head(evq).k = "Capabilities") ]_vars

\* the pointer exists, and the compositor has withdrawn the capability and
\* announced it again: both events are about to be dispatched
C13_Witness ==
    /\ pointer_created
    /\ Sent("get_pointer") = 1
    /\ Len(evq) = 2
    /\ evq[1].k = "Capabilities" /\ evq[1].caps = {}
    /\ evq[2].k = "Capabilities" /\ "Pointer" \in evq[2].caps

\* C17: each Ping{serial} dispatched is answered by exactly one
\* pong(serial), each xdg_surface Configure{serial} by exactly one
\* ack_configure(serial); a toplevel event sends nothing; and a pong or an
\* ack_configure is only ever sent by the dispatch of a Ping or a Configure.
C17_SerialEchoed ==
    [][ /\ (DispatchStep /\ Head(evq).k = "Ping" =>
              out' = Append(out, [req |-> "pong", s |-> Head(evq).s]))
        /\ (DispatchStep /\ Head(evq).k = "SurfaceConfigure" =>
              out' = Append(out, [req |-> "ack_configure", s |-> Head(evq).s]))
        /\ (DispatchStep /\ Head(evq).k \in {"ToplevelConfigure", "Close"} =>
              out' = out)
        /\ (Sent("pong")' # Sent("pong") =>
              /\ DispatchStep /\ Head(evq).k = "Ping"
              /\ Sent("pong")' = Sent("pong") + 1)
        /\ (Sent("ack_configure")' # Sent("ack_configure") =>
              /\ DispatchStep /\ Head(evq).k = "SurfaceConfigure"
              /\ Sent("ack_configure")' = Sent("ack_configure") + 1) ]_vars

C17_Witness ==
    /\ evq = << >>
    /\ out = << [req |-> "pong", s |-> 2],
                [req |-> "ack_configure", s |-> 2],
                [req |-> "ack_configure", s |-> 1] >>

\* the step calls the bus watch closure with the oldest message on the bus
BusWatchStep == Len(bus') < Len(bus)

====
